---- MODULE Spec2Model ----
(***************************************************************************)
(* Model of deep_srl-br:                                                   *)
(*   models/agents.py        AgentMeta, SRLAgent (__init__, load,          *)
(*                           evaluate, fit), get_tshape                    *)
(*   models/dblstm.py        lazy_property, DBLSTM                         *)
(*   datasets/data_outputs.py  outputs_settings_persist, _make_dir         *)
(*                                                                         *)
(* The program is single threaded apart from the framework's queue-runner  *)
(* threads.  Each part of the program has its own variables and its own    *)
(* next-state relation (NextMeta, NextEval, NextAgent, NextFit, NextLazy,  *)
(* NextDir, NextSettings); all specifications share Init.                  *)
(***************************************************************************)
EXTENDS Integers, Sequences, FiniteSets, TLC

VARIABLES
    \* AgentMeta
    classes,        \* name -> body (set of attribute names) of the classes created
    lastNew,        \* the last call of AgentMeta.__new__ and how it ended
    \* SRLAgent.__init__, SRLAgent.load
    agent,          \* the agent the last constructor call returned
    ctor,           \* the last run of SRLAgent.__init__ and what it did
    disk,           \* output directory -> the target_labels in its params.json
    \* SRLAgent.fit
    fpc,                    \* position inside fit
    in_body,                \* the test of line 504 passed: fit is in the loop
                            \* body
    restore_session,        \* self._restore_session
    conll_f1,               \* the f1 recorded in target_dir/best-valid.conll
    db_size,                \* ub - lb of get_db_bounds('train')
    ckpt,                   \* validation f1 of the model stored at session_path
    save_calls,             \* calls of saver.save
    nsaves,                 \* calls of saver.save that returned
    restored_at,            \* training steps run before saver.restore returned, -1: never
    best_validation_rate, step, chunk_size, epochs, eps, total_error,
    f1_train,               \* PyNone while the local is unbound
    f1_valid,               \* PyNone while the local is unbound
    max_seen,               \* the highest validation f1 known so far
    should_stop,            \* coord.should_stop()
    coord_log,              \* the calls fit made on coord
    fexc,                   \* the exception in flight
    raised_by,              \* the call that raised it
    exit_reason,            \* how the loop was left
    \* lazy_property, DBLSTM
    objs,           \* instance -> its attributes (attribute name -> value)
    calls,          \* instance -> decorated function -> times it was called
    ops,            \* graph operations created so far; a function returns a new one
    last_access,    \* the last read of a lazy property and the value it gave
    \* datasets/data_outputs.py
    fs,             \* the names matching [0-9]* under prefix/hparam_string/
    returned,       \* what the calls of _make_dir returned, in order
    settings_txt,   \* the lines of output_dir + 'settings.txt', PyNone: no file
    last_persist,   \* the last call of outputs_settings_persist
    \* SRLAgent.evaluate
    evpc,           \* position inside evaluate
    evargs,         \* the arguments and the agent's fields of the running call
    evf1,           \* local f1
    evexc,          \* the exception in flight
    evout           \* how the call ended, as the caller sees it

metaVars == <<classes, lastNew>>
evalVars == <<evpc, evargs, evf1, evexc, evout>>
agentVars == <<agent, ctor, disk>>
fitVars == <<fpc, in_body, restore_session, conll_f1, db_size, ckpt, save_calls, nsaves,
             restored_at,
             best_validation_rate, step, chunk_size, epochs, eps, total_error,
             f1_train, f1_valid, max_seen, should_stop, coord_log, fexc,
             raised_by, exit_reason>>
lazyVars == <<objs, calls, ops, last_access>>
dirVars == <<fs, returned>>
settingsVars == <<settings_txt, last_persist>>
ioVars == <<lazyVars, dirVars, settingsVars>>
vars == <<metaVars, evalVars, agentVars, fitVars, ioVars>>

None == "None"

(***************************************************************************)
(* AgentMeta (agents.py 32-56)                                             *)
(***************************************************************************)
\* the methods the docstring of AgentMeta says every agent must implement
DocumentedAgentMethods == {"evaluate", "evaluate_dataset", "fit", "load", "predict"}

\* the tuple agent_methods of AgentMeta.__new__ (line 49)
agent_methods == <<"evaluate", "fit", "load", "predict">>

\* the names defined in the body of class SRLAgent (lines 60-668); the
\* definition of evaluate_dataset (lines 334-400) is commented out
SRLAgentBody == {"__init__", "load", "single_task", "dual_task", "evaluate",
                 "_evaluate_dataset", "fit", "predict", "_predict_and_eval",
                 "evaluate_propositions", "_ctx_p"}

\* names a class body is drawn from
BodyNames == DocumentedAgentMethods \cup {"__init__"}

ClassNames == {"A", "B"}

\* AgentMeta.__new__: the first method of agent_methods missing from body
\* raises TypeError naming it; otherwise the class is created
AgentMeta__new__(body) ==
    LET missing == {i \in 1..Len(agent_methods) : agent_methods[i] \notin body}
    IN  IF missing # {}
        THEN [exc |-> "TypeError",
              msg |-> agent_methods[CHOOSE i \in missing : \A j \in missing : i <= j]]
        ELSE [exc |-> None, msg |-> None]

NoNew == [name |-> None, body |-> {}, exc |-> None, msg |-> None]

\* a class statement with metaclass=AgentMeta
CreateClass(name, body) ==
    LET r == AgentMeta__new__(body)
    IN  /\ lastNew' = [name |-> name, body |-> body, exc |-> r.exc, msg |-> r.msg]
        /\ classes' = IF r.exc = None
                      THEN [n \in DOMAIN classes \cup {name} |->
                               IF n = name THEN body ELSE classes[n]]
                      ELSE classes

\* importing models/agents.py executes `class SRLAgent(metaclass=AgentMeta)`
ImportAgents ==
    /\ "SRLAgent" \notin DOMAIN classes
    /\ CreateClass("SRLAgent", SRLAgentBody)
    /\ UNCHANGED <<evalVars, agentVars, fitVars, ioVars>>

\* a client defines an agent class of its own
DefineAgent ==
    /\ \E name \in ClassNames, body \in SUBSET BodyNames : CreateClass(name, body)
    /\ UNCHANGED <<evalVars, agentVars, fitVars, ioVars>>

MetaInit ==
    /\ classes = << >>
    /\ lastNew = NoNew

NextMeta == ImportAgents \/ DefineAgent

\* C1: a class is created through AgentMeta exactly when its body defines all
\* five of evaluate, evaluate_dataset, fit, load and predict, any other body
\* raising TypeError; and SRLAgent offers evaluate_dataset.
C1_FiveMethodsEnforced ==
    /\ lastNew.name # None =>
          /\ (lastNew.exc = None) <=> (DocumentedAgentMethods \subseteq lastNew.body)
          /\ lastNew.exc \in {None, "TypeError"}
    /\ "SRLAgent" \in DOMAIN classes => "evaluate_dataset" \in classes["SRLAgent"]

(***************************************************************************)
(* SRLAgent.evaluate (agents.py 288-332)                                   *)
(***************************************************************************)
Dirs == {"outputs/a/00/", "outputs/a/01/"}
F1Values == {0, 40, 70}
\* what evaluator.evaluate_npyarray raises when it does not return a score
EvaluatorErrors == {"AttributeError", "IOError"}
\* a Python value that may be None: << >> is None, <<x>> is x
PyNone == << >>
Some(x) == <<x>>
\* predictions: Y is one array for a single task, a pair of arrays for a dual task
Arrays == {"y1", "y2"}

NoArgs == [target_dir |-> None, n_labels |-> 0, Y |-> << >>, passed |-> None,
           raised |-> None]
NoOut == [kind |-> None, value |-> PyNone, exc |-> None, msg |-> None]

EvalInit ==
    /\ evpc = "idle"
    /\ evargs = NoArgs
    /\ evf1 = PyNone
    /\ evexc = [type |-> None, msg |-> None]
    /\ evout = NoOut

\* line 317: f1 = None, entering the try block
EvaluateCall ==
    /\ evpc = "idle"
    /\ \E d \in Dirs, k \in {1, 2}, Y \in [1..2 -> Arrays] :
          evargs' = [target_dir |-> d, n_labels |-> k,
                     Y |-> IF k = 2 THEN Y ELSE <<Y[1]>>, passed |-> None,
                     raised |-> None]
    /\ evf1' = PyNone
    /\ evexc' = [type |-> None, msg |-> None]
    /\ evout' = NoOut
    /\ evpc' = "try"
    /\ UNCHANGED <<metaVars, agentVars, fitVars, ioVars>>

dual_task(n_labels) == n_labels = 2

\* lines 318-326: the try block
EvaluateTry ==
    /\ evpc = "try"
    /\ LET Yarg == IF dual_task(evargs.n_labels)
                   THEN evargs.Y[Len(evargs.Y)] ELSE evargs.Y[1]
       IN  /\ \/ \E f1 \in F1Values :
                    /\ evargs' = [evargs EXCEPT !.passed = Yarg]
                    /\ evf1' = Some(f1)
                    /\ evexc' = evexc
                    /\ evpc' = "finally"
              \/ \E e \in EvaluatorErrors :
                    /\ evargs' = [evargs EXCEPT !.passed = Yarg, !.raised = e]
                    /\ evf1' = evf1
                    /\ evexc' = [type |-> e, msg |-> None]
                    /\ evpc' = IF e = "AttributeError" THEN "except" ELSE "finally"
    /\ UNCHANGED <<evout, metaVars, agentVars, fitVars, ioVars>>

\* lines 327-330: the handler raises a new AttributeError naming target_dir
EvaluateExcept ==
    /\ evpc = "except"
    /\ evexc' = [type |-> "AttributeError", msg |-> evargs.target_dir]
    /\ evpc' = "finally"
    /\ UNCHANGED <<evargs, evf1, evout, metaVars, agentVars, fitVars, ioVars>>

\* what a return statement inside a finally block does to the exception in
\* flight: it is discarded and the call returns normally
FinallyReturn(exc, value) ==
    [kind |-> "return", value |-> value, exc |-> None, msg |-> None]

\* lines 331-332: finally: return f1
EvaluateFinally ==
    /\ evpc = "finally"
    /\ evout' = FinallyReturn(evexc, evf1)
    /\ evexc' = [type |-> None, msg |-> None]
    /\ evpc' = "idle"
    /\ UNCHANGED <<evargs, evf1, metaVars, agentVars, fitVars, ioVars>>

NextEval == EvaluateCall \/ EvaluateTry \/ EvaluateExcept \/ EvaluateFinally

\* C2: whenever evaluator.evaluate_npyarray raises AttributeError, the caller
\* of evaluate sees an AttributeError whose message names target_dir and no
\* value is returned.
C2_AttributeErrorReachesCaller ==
    (evpc = "idle" /\ evargs.raised = "AttributeError") =>
        /\ evout.kind = "raise"
        /\ evout.exc = "AttributeError"
        /\ evout.msg = evargs.target_dir
        /\ evout.value = PyNone

(***************************************************************************)
(* get_tshape, SRLAgent.__init__, SRLAgent.load (agents.py 102-286, 682-699)*)
(***************************************************************************)
MaxLabels == 3
Labels == {"T", "IOB"}
Sizes == {3, 5}

RECURSIVE SeqsUpTo(_, _)
\* the sequences over S of length at most n
SeqsUpTo(S, n) ==
    IF n = 0 THEN {<< >>}
    ELSE LET shorter == SeqsUpTo(S, n - 1)
         IN  shorter \cup {Append(q, x) : q \in {r \in shorter : Len(r) = n - 1}, x \in S}

Max(S) == CHOOSE m \in S : \A x \in S : x <= m

\* get_tshape rejecting only what its message names, more than two labels
get_tshapeLe2(output_labels, cnf_dict) ==
    LET k == Len(output_labels)
    IN  IF k = 0 THEN [exc |-> None, tshape |-> <<None, None>>]
        ELSE IF k = 1
        THEN [exc |-> None, tshape |-> <<None, None, cnf_dict[output_labels[1]]>>]
        ELSE IF k = 2
        THEN [exc |-> None,
              tshape |-> <<None, None,
                           Max({cnf_dict[output_labels[i]] : i \in 1..k}), k>>]
        ELSE [exc |-> "ValueError", tshape |-> << >>]

\* get_tshape (lines 682-699)
get_tshape(output_labels, cnf_dict) ==
    LET k == Len(output_labels)
    IN  IF k = 1
        THEN [exc |-> None, tshape |-> <<None, None, cnf_dict[output_labels[1]]>>]
        ELSE IF k = 2
        THEN [exc |-> None,
              tshape |-> <<None, None,
                           Max({cnf_dict[output_labels[i]] : i \in 1..k}), k>>]
        ELSE [exc |-> "ValueError", tshape |-> << >>]

\* the properties single_task and dual_task (lines 280-286)
single_task(target_labels) == Len(target_labels) = 1
is_dual_task(target_labels) == Len(target_labels) = 2

NoAgent == [target_dir |-> None, restore_session |-> FALSE,
            target_labels |-> << >>, rnn |-> None]
NoCtor == [via |-> None, ckpt_dir |-> None, target_labels |-> << >>,
           cnf_dict |-> << >>, exc |-> None, T_shape |-> << >>, rnn |-> None,
           hparam_calls |-> 0, persist_calls |-> 0, persisted |-> None,
           created |-> {}]

\* a load that forgets the checkpoint directory
init_target_dirFresh(ckpt_dir, new_dir) ==
    [target_dir |-> new_dir, restore_session |-> FALSE, snapshots |-> 1]

\* lines 151-178: where the agent keeps its files, and whether fit restores
init_target_dir(ckpt_dir, new_dir) ==
    IF ckpt_dir = None
    THEN [target_dir |-> new_dir, restore_session |-> FALSE, snapshots |-> 1]
    ELSE [target_dir |-> ckpt_dir, restore_session |-> TRUE, snapshots |-> 0]

AgentInit ==
    /\ agent = NoAgent
    /\ ctor = NoCtor
    /\ disk = << >>

\* SRLAgent.__init__ (lines 150-255).  ckpt_dir is None unless load passes it.
\* snapshot_persist creates a directory, writes the arguments to its
\* params.json and returns its name: new_dir stands for what it returns.
\* cnf_dict is what config.get_config(embeddings_model) returns.
SRLAgent__init__(via, target_labels, ckpt_dir, cnf_dict, new_dir) ==
    LET td == init_target_dir(ckpt_dir, new_dir)
        fresh == td.snapshots > 0
        T == get_tshape(target_labels, cnf_dict)
        rnn == IF is_dual_task(target_labels) THEN "DualLabeler"
               ELSE IF single_task(target_labels) THEN "Labeler" ELSE None
    IN  /\ disk' = IF fresh
                   THEN [d \in DOMAIN disk \cup {td.target_dir} |->
                            IF d = td.target_dir THEN target_labels ELSE disk[d]]
                   ELSE disk
        /\ ctor' = [via |-> via, ckpt_dir |-> ckpt_dir,
                    target_labels |-> target_labels, cnf_dict |-> cnf_dict,
                    exc |-> T.exc, T_shape |-> T.tshape,
                    rnn |-> IF T.exc = None THEN rnn ELSE None,
                    hparam_calls |-> td.snapshots,
                    persist_calls |-> td.snapshots,
                    persisted |-> IF fresh THEN td.target_dir ELSE None,
                    created |-> DOMAIN disk' \ DOMAIN disk]
        /\ agent' = IF T.exc = None
                    THEN [target_dir |-> td.target_dir,
                          restore_session |-> td.restore_session,
                          target_labels |-> target_labels, rnn |-> rnn]
                    ELSE NoAgent

\* srl = SRLAgent(target_labels=...)
Construct ==
    /\ \E target_labels \in SeqsUpTo(Labels, MaxLabels), cnf_dict \in [Labels -> Sizes],
          new_dir \in Dirs \ DOMAIN disk :
          SRLAgent__init__("init", target_labels, None, cnf_dict, new_dir)
    /\ UNCHANGED <<metaVars, evalVars, fitVars, ioVars>>

\* SRLAgent.load (lines 257-278): reads ckpt_dir + 'params.json', adds ckpt_dir
\* to the attributes read and calls the constructor with them
Load ==
    /\ \E ckpt_dir \in Dirs, cnf_dict \in [Labels -> Sizes] :
          IF ckpt_dir \in DOMAIN disk
          THEN SRLAgent__init__("load", disk[ckpt_dir], ckpt_dir, cnf_dict, None)
          ELSE /\ ctor' = [NoCtor EXCEPT !.via = "load", !.ckpt_dir = ckpt_dir,
                                         !.exc = "FileNotFoundError"]
               /\ agent' = NoAgent
               /\ disk' = disk
    /\ UNCHANGED <<metaVars, evalVars, fitVars, ioVars>>

NextAgent == Construct \/ Load

\* C4: load(ckpt_dir) returns an agent with target_dir = ckpt_dir and
\* _restore_session true and calls neither snapshot_hparam_string nor
\* snapshot_persist, so that no directory is created; an agent constructed
\* without ckpt_dir has _restore_session false and target_dir equal to the
\* directory snapshot_persist returned.
C4_LoadKeepsDirectory ==
    /\ ctor.via = "load" =>
          /\ ctor.hparam_calls = 0
          /\ ctor.persist_calls = 0
          /\ ctor.created = {}
          /\ ctor.exc = None =>
                /\ agent.target_dir = ctor.ckpt_dir
                /\ agent.restore_session
    /\ (ctor.via = "init" /\ ctor.exc = None) =>
          /\ ~agent.restore_session
          /\ ctor.persist_calls = 1
          /\ agent.target_dir = ctor.persisted

\* a load has returned an agent
C4_Witness ==
    /\ ctor.via = "load"
    /\ ctor.exc = None
    /\ agent.target_dir \in Dirs

\* C8: with one label T_shape is [None, None, size of the label]; with two
\* it is [None, None, the larger of the two sizes, 2]; with any other number
\* of labels, zero included, get_tshape raises ValueError, the constructor
\* fails with it and no Labeler has been built.
C8_TShapeByLabelCount ==
    (ctor.via # None /\ ctor.exc # "FileNotFoundError") =>
        LET k == Len(ctor.target_labels)
            size(i) == ctor.cnf_dict[ctor.target_labels[i]]
        IN  /\ k = 1 => /\ ctor.exc = None
                        /\ ctor.T_shape = <<None, None, size(1)>>
            /\ k = 2 => /\ ctor.exc = None
                        /\ Len(ctor.T_shape) = 4
                        /\ ctor.T_shape[1] = None /\ ctor.T_shape[2] = None
                        /\ ctor.T_shape[3] \in {size(1), size(2)}
                        /\ ctor.T_shape[3] >= size(1) /\ ctor.T_shape[3] >= size(2)
                        /\ ctor.T_shape[4] = 2
            /\ k \notin {1, 2} => /\ ctor.exc = "ValueError"
                                  /\ ctor.rnn = None
                                  /\ agent = NoAgent

\* a constructor call with two labels of different sizes, the larger first
C8_Witness ==
    /\ ctor.via = "init"
    /\ Len(ctor.target_labels) = 2
    /\ ctor.exc = None
    /\ ctor.cnf_dict[ctor.target_labels[1]] > ctor.cnf_dict[ctor.target_labels[2]]
    /\ ctor.rnn = "DualLabeler"

(***************************************************************************)
(* SRLAgent.fit (agents.py 453-566)                                        *)
(*                                                                         *)
(* error is the mean error rate of a batch, counted here in thousandths;   *)
(* eps = total_error / 25 is kept as eps * 25000, so that eps < 1e-3 reads *)
(* eps < 25.                                                               *)
(*                                                                         *)
(* fit runs beside the queue-runner threads it starts at line 480 and      *)
(* joins at line 566.  A step of fit ends where fit calls out and waits:   *)
(* saver.restore (485), evaluate_fromconllfile (487), session.run (505,    *)
(* 509), evaluate_propositions (526), next(_evaluate_dataset) (545),       *)
(* saver.save (550) and coord.join (566).  fpc is the call fit is in:      *)
(*   "idle"        fit not called                                          *)
(*   "started"     threads started, line 484 next                          *)
(*   "restored"    saver.restore returned, lines 486-487 next              *)
(*   "loop"        at the test of line 504 (in_body false), or past it and *)
(*                 inside session.run of line 505 (in_body true)           *)
(*   "train"       inside session.run of line 509                          *)
(*   "eval_train"  inside evaluate_propositions of line 526                *)
(*   "valid"       inside next(self._evaluate_dataset(...)) of line 545    *)
(*   "save"        inside saver.save of line 550                           *)
(*   "finally"     the loop is left: in the handler of line 561 or at line *)
(*                 565 (coord_log empty), or inside coord.join of line 566 *)
(*   "done"        fit returned, or raised in or after the finally block   *)
(*   "aborted"     fit raised before the try statement                     *)
(***************************************************************************)
MaxSteps == 15
DbSizes == {2, 11}
BatchSizes == {1, 2}
Errors == {0, 5}
EpsInit == 2500000
EpsThreshold == 25
DisplayStep == 10

FitInit ==
    /\ fpc = "idle"
    /\ in_body = FALSE
    /\ restore_session = FALSE
    /\ conll_f1 = PyNone
    /\ db_size = 1
    /\ ckpt = PyNone
    /\ save_calls = 0
    /\ nsaves = 0
    /\ restored_at = -1
    /\ best_validation_rate = -1
    /\ step = 0
    /\ chunk_size = 0
    /\ epochs = 0
    /\ eps = 0
    /\ total_error = 0
    /\ f1_train = PyNone
    /\ f1_valid = PyNone
    /\ max_seen = -1
    /\ should_stop = FALSE
    /\ coord_log = << >>
    /\ fexc = None
    /\ raised_by = None
    /\ exit_reason = None

\* the agent fit runs on and its data: fixed during the call
fitEnv == <<restore_session, conll_f1, db_size>>
\* the locals of the loop
fitLocals == <<step, chunk_size, epochs, eps, total_error, f1_train, f1_valid>>
\* the exception in flight and the way the loop was left
fitExit == <<fexc, raised_by, exit_reason>>
notFit == <<metaVars, evalVars, agentVars, ioVars>>

\* a fit that starts from -1 whatever was restored
initial_bestFresh(restoring, evaluator_f1) == -1

\* lines 484-490: the rate the loop starts from; evaluator_f1 is the f1
\* evaluate_fromconllfile read
initial_best(restoring, evaluator_f1) ==
    IF restoring THEN evaluator_f1[1] ELSE -1

\* a save that also replaces a checkpoint of equal f1
save_conditionLe(f1, best) == f1 # 0 /\ best <= f1

\* line 547: whether the model just validated replaces the checkpoint
save_condition(f1, best) == f1 # 0 /\ best < f1

\* line 504: the loop condition
loop_continues == ~(should_stop \/ eps < EpsThreshold)

\* the queue-runner threads run from line 480 until coord.join returns
threads_running == fpc \notin {"idle", "done"}

\* srl.fit() on a fresh agent, or on one load returned: in that case
\* target_dir holds model.ckpt and best-valid.conll with the f1 of that
\* model.  Lines 472-482: the session, the coordinator, the threads.
FitCall ==
    /\ fpc = "idle"
    /\ \E restoring \in BOOLEAN, f1 \in F1Values, size \in DbSizes :
          /\ restore_session' = restoring
          /\ conll_f1' = IF restoring THEN Some(f1) ELSE PyNone
          /\ ckpt' = IF restoring THEN Some(f1) ELSE PyNone
          /\ max_seen' = IF restoring THEN f1 ELSE -1
          /\ db_size' = size
    /\ fpc' = "started"
    /\ UNCHANGED <<in_body, save_calls, nsaves, restored_at, best_validation_rate,
                   fitLocals, should_stop, coord_log, fitExit, notFit>>

\* a queue-runner thread reaches the end of its input and asks the
\* coordinator to stop
QueueRunnerStops ==
    /\ threads_running
    /\ ~should_stop
    /\ should_stop' = TRUE
    /\ UNCHANGED <<fpc, in_body, fitEnv, ckpt, save_calls, nsaves, restored_at,
                   best_validation_rate, fitLocals, max_seen, coord_log,
                   fitExit, notFit>>

\* a call made before the try statement raises: fit is over, the finally
\* block of lines 563-566 is not entered
Abort(by) ==
    /\ fpc' = "aborted"
    /\ fexc' = "Error"
    /\ raised_by' = by
    /\ UNCHANGED <<in_body, fitEnv, ckpt, save_calls, nsaves, restored_at,
                   best_validation_rate, fitLocals, max_seen, should_stop,
                   coord_log, exit_reason, notFit>>

\* lines 488-503: best_validation_rate and the control variables of the loop
FitLocals(best) ==
    /\ best_validation_rate' = best
    /\ step' = 1
    /\ total_error' = 0
    /\ chunk_size' = 0
    /\ eps' = EpsInit
    /\ epochs' = 0
    /\ fpc' = "loop"
    /\ UNCHANGED <<in_body, fitEnv, ckpt, save_calls, nsaves, restored_at, f1_train,
                   f1_valid, max_seen, should_stop, coord_log, fitExit, notFit>>

\* lines 484-485: saver.restore returns
FitRestore ==
    /\ fpc = "started"
    /\ restore_session
    /\ restored_at' = 0
    /\ fpc' = "restored"
    /\ UNCHANGED <<in_body, fitEnv, ckpt, save_calls, nsaves, best_validation_rate,
                   fitLocals, max_seen, should_stop, coord_log, fitExit, notFit>>

\* line 485: saver.restore raises
FitRestoreFails ==
    /\ fpc = "started"
    /\ restore_session
    /\ Abort("restore")

\* lines 486-503: evaluate_fromconllfile returns, the evaluator holds the f1
\* of best-valid.conll
FitReadBest ==
    /\ fpc = "restored"
    /\ FitLocals(initial_best(restore_session, conll_f1))

\* line 487: evaluate_fromconllfile raises
FitReadBestFails ==
    /\ fpc = "restored"
    /\ Abort("evaluate_fromconllfile")

\* lines 489-503 on a fresh agent
FitFresh ==
    /\ fpc = "started"
    /\ ~restore_session
    /\ FitLocals(initial_best(restore_session, conll_f1))

\* line 504 with the condition true: fit enters the body and waits for a batch
LoopTest ==
    /\ fpc = "loop"
    /\ ~in_body
    /\ loop_continues
    /\ in_body' = TRUE
    /\ UNCHANGED <<fpc, fitEnv, ckpt, save_calls, nsaves, restored_at,
                   best_validation_rate, fitLocals, max_seen, should_stop,
                   coord_log, fitExit, notFit>>

\* line 504 with the condition false: the loop ends
LoopExit ==
    /\ fpc = "loop"
    /\ ~in_body
    /\ ~loop_continues
    /\ fpc' = "finally"
    /\ exit_reason' = "condition"
    /\ UNCHANGED <<in_body, fitEnv, ckpt, save_calls, nsaves, restored_at,
                   best_validation_rate, fitLocals, max_seen, should_stop,
                   coord_log, fexc, raised_by, notFit>>

\* a call inside the try statement raises an error no handler catches: the
\* finally block is next
Raise(exc, by) ==
    /\ fpc' = "finally"
    /\ in_body' = FALSE
    /\ fexc' = exc
    /\ raised_by' = by
    /\ exit_reason' = "exception"

\* line 505 raising tf.errors.OutOfRangeError, caught at lines 560-561
StreamEnds ==
    /\ fpc = "loop"
    /\ in_body
    /\ fpc' = "finally"
    /\ in_body' = FALSE
    /\ exit_reason' = "OutOfRangeError"
    /\ UNCHANGED <<fitEnv, ckpt, save_calls, nsaves, restored_at, best_validation_rate,
                   fitLocals, max_seen, should_stop, coord_log, fexc,
                   raised_by, notFit>>

\* line 505 raising another error
StreamFails ==
    /\ fpc = "loop"
    /\ in_body
    /\ Raise("Error", "stream")
    /\ UNCHANGED <<fitEnv, ckpt, save_calls, nsaves, restored_at, best_validation_rate,
                   fitLocals, max_seen, should_stop, coord_log, notFit>>

\* lines 505-509: a batch of n propositions arrives, chunk_size grows, fit
\* calls session.run on the network
BatchArrives ==
    /\ fpc = "loop"
    /\ in_body
    /\ step <= MaxSteps
    /\ \E n \in BatchSizes : chunk_size' = chunk_size + n
    /\ fpc' = "train"
    /\ UNCHANGED <<in_body, fitEnv, ckpt, save_calls, nsaves, restored_at,
                   best_validation_rate, step, epochs, eps, total_error,
                   f1_train, f1_valid, max_seen, should_stop, coord_log,
                   fitExit, notFit>>

\* lines 542-545 and 558: at an epoch boundary the validation set is
\* evaluated next, otherwise the step is over and the test of line 504 is next
EpochCheck ==
    IF epochs < chunk_size \div db_size
    THEN /\ epochs' = chunk_size \div db_size
         /\ fpc' = "valid"
         /\ UNCHANGED <<step, in_body>>
    ELSE /\ step' = step + 1
         /\ fpc' = "loop"
         /\ in_body' = FALSE
         /\ UNCHANGED epochs

\* lines 509-525: session.run returns the batch's error
TrainReturns ==
    /\ fpc = "train"
    /\ \E error \in Errors : total_error' = total_error + error
    /\ IF step % DisplayStep = 0
       THEN /\ fpc' = "eval_train"
            /\ UNCHANGED <<step, in_body, epochs>>
       ELSE EpochCheck
    /\ UNCHANGED <<fitEnv, ckpt, save_calls, nsaves, restored_at, best_validation_rate,
                   chunk_size, eps, f1_train, f1_valid, max_seen, should_stop,
                   coord_log, fitExit, notFit>>

\* line 509: session.run raises
TrainFails ==
    /\ fpc = "train"
    /\ Raise("Error", "train")
    /\ UNCHANGED <<fitEnv, ckpt, save_calls, nsaves, restored_at, best_validation_rate,
                   fitLocals, max_seen, should_stop, coord_log, notFit>>

\* lines 526-540: evaluate_propositions returns the training f1
EvalTrainReturns ==
    /\ fpc = "eval_train"
    /\ \E f1 \in F1Values : f1_train' = Some(f1)
    /\ eps' = total_error
    /\ total_error' = 0
    /\ EpochCheck
    /\ UNCHANGED <<fitEnv, ckpt, save_calls, nsaves, restored_at, best_validation_rate,
                   chunk_size, f1_valid, max_seen, should_stop, coord_log,
                   fitExit, notFit>>

\* line 526: evaluate_propositions raises
EvalTrainFails ==
    /\ fpc = "eval_train"
    /\ Raise("Error", "evaluate_propositions")
    /\ UNCHANGED <<fitEnv, ckpt, save_calls, nsaves, restored_at, best_validation_rate,
                   fitLocals, max_seen, should_stop, coord_log, notFit>>

\* lines 552-558: the print of the epoch reads f1_train, which is unbound
\* until line 526 has run; then the step is over
PrintEpoch ==
    IF f1_train = PyNone
    THEN /\ Raise("UnboundLocalError", "print")
         /\ UNCHANGED step
    ELSE /\ step' = step + 1
         /\ fpc' = "loop"
         /\ in_body' = FALSE
         /\ UNCHANGED fitExit

\* lines 545-548: the generator yields the validation f1; when it is to be
\* saved, best_validation_rate is set and saver.save called
ValidReturns ==
    /\ fpc = "valid"
    /\ \E f1 \in F1Values :
          /\ f1_valid' = Some(f1)
          /\ max_seen' = IF f1 > max_seen THEN f1 ELSE max_seen
          /\ IF save_condition(f1, best_validation_rate)
             THEN /\ best_validation_rate' = f1
                  /\ save_calls' = save_calls + 1
                  /\ fpc' = "save"
                  /\ UNCHANGED <<step, in_body, fitExit>>
             ELSE /\ PrintEpoch
                  /\ UNCHANGED <<best_validation_rate, save_calls>>
    /\ UNCHANGED <<fitEnv, ckpt, nsaves, restored_at, chunk_size, epochs, eps,
                   total_error, f1_train, should_stop, coord_log, notFit>>

\* line 545: next(self._evaluate_dataset(...)) raises
ValidFails ==
    /\ fpc = "valid"
    /\ Raise("Error", "valid")
    /\ UNCHANGED <<fitEnv, ckpt, save_calls, nsaves, restored_at, best_validation_rate,
                   fitLocals, max_seen, should_stop, coord_log, notFit>>

\* lines 550-558: saver.save returns, the model validated is at session_path
SaveReturns ==
    /\ fpc = "save"
    /\ ckpt' = f1_valid
    /\ nsaves' = nsaves + 1
    /\ PrintEpoch
    /\ UNCHANGED <<fitEnv, save_calls, restored_at, best_validation_rate, chunk_size,
                   epochs, eps, total_error, f1_train, f1_valid, max_seen,
                   should_stop, coord_log, notFit>>

\* line 550: saver.save raises; line 548 has run
SaveFails ==
    /\ fpc = "save"
    /\ Raise("Error", "save")
    /\ UNCHANGED <<fitEnv, ckpt, save_calls, nsaves, restored_at, best_validation_rate,
                   fitLocals, max_seen, should_stop, coord_log, notFit>>

\* line 565: coord.request_stop(); fit then waits in coord.join
FitRequestStop ==
    /\ fpc = "finally"
    /\ coord_log = << >>
    /\ should_stop' = TRUE
    /\ coord_log' = Append(coord_log, "request_stop")
    /\ UNCHANGED <<fpc, in_body, fitEnv, ckpt, save_calls, nsaves, restored_at,
                   best_validation_rate, fitLocals, max_seen, fitExit, notFit>>

\* a finally block that does not wait for the threads
FitJoinSkipped ==
    /\ fpc = "finally"
    /\ coord_log = <<"request_stop">>
    /\ fpc' = "done"
    /\ UNCHANGED <<in_body, fitEnv, ckpt, save_calls, nsaves, restored_at,
                   best_validation_rate, fitLocals, max_seen, should_stop,
                   coord_log, fitExit, notFit>>

\* line 566: coord.join(threads) returns; afterwards fit returns, or the
\* exception in flight propagates.  coord_log holds the calls made
FitJoin ==
    /\ fpc = "finally"
    /\ coord_log = <<"request_stop">>
    /\ coord_log' = Append(coord_log, "join")
    /\ fpc' = "done"
    /\ UNCHANGED <<in_body, fitEnv, ckpt, save_calls, nsaves, restored_at,
                   best_validation_rate, fitLocals, max_seen, should_stop,
                   fitExit, notFit>>

\* line 566: coord.join(threads) raises, an error a thread reported or
\* RuntimeError for threads that did not stop in time; it is the last
\* statement of the finally block, so this is the exception fit ends with,
\* in place of the one in flight
FitJoinFails ==
    /\ fpc = "finally"
    /\ coord_log = <<"request_stop">>
    /\ coord_log' = Append(coord_log, "join")
    /\ fpc' = "done"
    /\ fexc' = "Error"
    /\ raised_by' = "join"
    /\ UNCHANGED <<in_body, fitEnv, ckpt, save_calls, nsaves, restored_at,
                   best_validation_rate, fitLocals, max_seen, should_stop,
                   exit_reason, notFit>>

NextFit == FitCall \/ QueueRunnerStops \/ FitRestore \/ FitRestoreFails
           \/ FitReadBest \/ FitReadBestFails \/ FitFresh \/ LoopTest
           \/ LoopExit \/ StreamEnds \/ StreamFails \/ BatchArrives
           \/ TrainReturns \/ TrainFails \/ EvalTrainReturns \/ EvalTrainFails
           \/ ValidReturns \/ ValidFails \/ SaveReturns \/ SaveFails
           \/ FitRequestStop \/ FitJoin \/ FitJoinFails

\* fit has reached the try statement
InFit == fpc \notin {"idle", "started", "restored", "aborted"}

\* C3, as stated: during fit the stored checkpoint is always the one with
\* the highest validation f1 seen so far, and best_validation_rate is its f1.
C3_CheckpointAlwaysBestSeen ==
    (InFit /\ ckpt # PyNone) =>
        /\ ckpt[1] = best_validation_rate
        /\ ckpt[1] = max_seen

\* C3, amended: during fit best_validation_rate never decreases; saver.save
\* is called only in a step that crossed an epoch boundary and whose
\* validation f1 is strictly greater than the best_validation_rate held
\* before, which is set to that f1 (line 548) before the call (line 550);
\* right after a save that returned best_validation_rate is the f1 of the
\* model saved; and the stored checkpoint is the one with the highest
\* validation f1 seen so far whenever no call of saver.save is running or has
\* raised.  While one runs, and after it raised, best_validation_rate is the
\* f1 just validated, above that of the stored checkpoint, and fit, once the
\* call raised, ends with an exception.
C3_BestRateAndCheckpoint ==
    /\ [](InFit =>
            /\ save_calls \in {nsaves, nsaves + 1}
            /\ ckpt # PyNone => ckpt[1] <= best_validation_rate
            /\ (ckpt # PyNone /\ save_calls = nsaves) =>
                  /\ ckpt[1] = best_validation_rate
                  /\ ckpt[1] = max_seen
            /\ save_calls # nsaves =>
                  /\ fpc \in {"save", "finally", "done"}
                  /\ fpc # "save" => fexc # None
                  /\ f1_valid = Some(best_validation_rate)
                  /\ best_validation_rate = max_seen
                  /\ ckpt # PyNone => ckpt[1] < best_validation_rate)
    /\ [][InFit =>
            /\ best_validation_rate' >= best_validation_rate
            /\ ckpt' # ckpt => nsaves' = nsaves + 1
            /\ nsaves' # nsaves =>
                  /\ fpc = "save"
                  /\ ckpt' = f1_valid
                  /\ best_validation_rate' = f1_valid[1]
            /\ save_calls' # save_calls =>
                  /\ fpc = "valid"
                  /\ fpc' = "save"
                  /\ f1_valid'[1] > best_validation_rate
                  /\ best_validation_rate' = f1_valid'[1]
            /\ (fpc' = "save" /\ fpc # "save") => save_calls' = save_calls + 1
            /\ (fpc' = "valid" /\ fpc # "valid") => epochs' > epochs]_vars

\* a fresh agent has saved twice, the second model replacing the first
C3_Witness ==
    /\ ~restore_session
    /\ nsaves = 2
    /\ ckpt = Some(70)

\* C5: on an agent obtained from load the session is restored before the
\* first training step and best_validation_rate starts at the f1 of
\* best-valid.conll, so that the restored checkpoint is only ever replaced by
\* a model of strictly higher validation f1; on a fresh agent nothing is
\* restored and best_validation_rate starts at -1.
C5_RestoredStart ==
    InFit =>
        /\ restore_session =>
              /\ restored_at = 0
              /\ chunk_size = 0 => best_validation_rate = conll_f1[1]
              /\ nsaves = 0 => ckpt = conll_f1
              /\ nsaves > 0 => ckpt[1] > conll_f1[1]
        /\ ~restore_session =>
              /\ restored_at = -1
              /\ chunk_size = 0 => best_validation_rate = -1

\* the checkpoint an agent was loaded from has been replaced
C5_Witness ==
    /\ restore_session
    /\ conll_f1 = Some(40)
    /\ nsaves = 1
    /\ ckpt = Some(70)

\* C6: the loop is left when the test of line 504 finds should_stop or
\* eps < 1e-3, or when the stream raises OutOfRangeError, and otherwise only
\* by an exception; fit never waits for a batch with eps < 1e-3, and no batch
\* is trained once the test has found the condition; whichever way the loop
\* is left, request_stop and then join are called on the coordinator exactly
\* once before fit is over, and not before the loop is left; fit ends with
\* an exception exactly when one left the loop or join raised.
C6_CoordinatorStopped ==
    /\ [](InFit =>
            /\ fpc \notin {"finally", "done"} => coord_log = << >>
            /\ fpc = "finally" => coord_log \in {<< >>, <<"request_stop">>}
            /\ fpc = "done" => coord_log = <<"request_stop", "join">>
            /\ fpc \in {"finally", "done"} =>
                  /\ exit_reason \in {"condition", "OutOfRangeError", "exception"}
                  /\ exit_reason = "exception" => fexc # None
                  /\ (fexc # None /\ raised_by # "join") =>
                        exit_reason = "exception"
                  /\ raised_by = "join" => fpc = "done"
            /\ (fpc = "finally" /\ exit_reason = "condition") =>
                  (should_stop \/ eps < EpsThreshold)
            /\ (fpc = "loop" /\ eps < EpsThreshold) => ~in_body)
    /\ [][(fpc = "loop" /\ ~in_body /\ (should_stop \/ eps < EpsThreshold)) =>
            /\ chunk_size' = chunk_size
            /\ ~in_body'
            /\ fpc' \in {"loop", "finally"}]_vars

\* fit is over after an exception other than OutOfRangeError left the loop
C6_Witness ==
    /\ fpc = "done"
    /\ fexc = "UnboundLocalError"
    /\ nsaves = 1

(***************************************************************************)
(* lazy_property and DBLSTM (dblstm.py 26-162)                             *)
(***************************************************************************)
NInstances == 3
Instances == 1..NInstances

\* the functions of DBLSTM decorated with lazy_property
LazyNames == {"prediction", "optimize", "cost", "error"}

\* the lazy properties a decorated function reads, in the order it reads
\* them: cost reads self.prediction twice (lines 144, 147), optimize reads
\* self.cost (138), error reads self.prediction (153)
Reads(name) ==
    CASE name = "prediction" -> << >>
      [] name = "cost" -> <<"prediction", "prediction">>
      [] name = "optimize" -> <<"cost">>
      [] name = "error" -> <<"prediction">>

\* line 31: the attribute that holds the result
attribute(name) == "_cache_" \o name

LazyInit ==
    /\ objs = << >>
    /\ calls = [i \in Instances |-> [n \in LazyNames |-> 0]]
    /\ ops = 0
    /\ last_access = [inst |-> 0, name |-> None, value |-> 0]

hasattr(st, self, attr) == attr \in DOMAIN st.objs[self]

setattr(st, self, attr, value) ==
    [st EXCEPT !.objs[self] = [a \in DOMAIN @ \cup {attr} |->
                                  IF a = attr THEN value ELSE @[a]]]

RECURSIVE decorator(_, _, _)
RECURSIVE ReadAll(_, _, _)

\* the reads a function body makes, one after the other
ReadAll(st, self, names) ==
    IF names = << >> THEN st
    ELSE ReadAll(decorator(st, self, Head(names)), self, Tail(names))

\* function(self): runs the body, which creates and returns a new operation
CallFunction(st, self, name) ==
    LET st1 == ReadAll(st, self, Reads(name))
    IN  [st1 EXCEPT !.ops = @ + 1, !.calls[self][name] = @ + 1, !.result = st1.ops + 1]

\* a getter that calls the function at every access
decoratorNoCache(st, self, name) ==
    LET st1 == CallFunction(st, self, name)
    IN  setattr(st1, self, attribute(name), st1.result)

\* the getter lazy_property returns (lines 35-38); .result is what it returns
decorator(st, self, name) ==
    LET st1 == IF ~hasattr(st, self, attribute(name))
               THEN LET st2 == CallFunction(st, self, name)
                    IN  setattr(st2, self, attribute(name), st2.result)
               ELSE st
    IN  [st1 EXCEPT !.result = st1.objs[self][attribute(name)]]

LazyState == [objs |-> objs, calls |-> calls, ops |-> ops, result |-> 0]

\* DBLSTM(X, T, seqlens) (lines 45-53): the constructor reads prediction,
\* optimize and error
NewDBLSTM ==
    /\ \E self \in Instances \ DOMAIN objs :
          LET st0 == [LazyState EXCEPT !.objs =
                         [i \in DOMAIN objs \cup {self} |->
                             IF i = self THEN << >> ELSE objs[i]]]
              st == ReadAll(st0, self, <<"prediction", "optimize", "error">>)
          IN  /\ objs' = st.objs
              /\ calls' = st.calls
              /\ ops' = st.ops
              /\ last_access' = [inst |-> self, name |-> "error", value |-> st.result]
    /\ UNCHANGED <<metaVars, evalVars, agentVars, fitVars, dirVars, settingsVars>>

\* dblstm.<name> read by a client, as main does at line 209
Access ==
    /\ \E self \in DOMAIN objs, name \in LazyNames :
          LET st == decorator(LazyState, self, name)
          IN  /\ objs' = st.objs
              /\ calls' = st.calls
              /\ ops' = st.ops
              /\ last_access' = [inst |-> self, name |-> name, value |-> st.result]
    /\ UNCHANGED <<metaVars, evalVars, agentVars, fitVars, dirVars, settingsVars>>

NextLazy == NewDBLSTM \/ Access

\* C7: a function decorated with lazy_property is evaluated at most once per
\* instance; its result is stored in the attribute '_cache_<function name>'
\* at the first access; every later access on that instance returns the
\* stored value and calls nothing; the caches of distinct instances are
\* independent.
C7_EvaluatedOncePerInstance ==
    /\ [](\A i \in DOMAIN objs, n \in LazyNames :
            /\ calls[i][n] <= 1
            /\ calls[i][n] = 1 <=> ("_cache_" \o n) \in DOMAIN objs[i]
            /\ \A j \in DOMAIN objs \ {i} :
                  (calls[i][n] = 1 /\ calls[j][n] = 1) =>
                      objs[i]["_cache_" \o n] # objs[j]["_cache_" \o n])
    /\ [](last_access.inst \in DOMAIN objs =>
            last_access.value = objs[last_access.inst]["_cache_" \o last_access.name])
    /\ [][\A i \in DOMAIN objs, n \in LazyNames :
            ("_cache_" \o n) \in DOMAIN objs[i] =>
                /\ objs'[i]["_cache_" \o n] = objs[i]["_cache_" \o n]
                /\ calls'[i][n] = calls[i][n]]_vars

\* a second instance exists and a property of the first one, computed by
\* its constructor, has been read again
C7_Witness ==
    /\ Cardinality(DOMAIN objs) >= 2
    /\ last_access.inst \in DOMAIN objs
    /\ last_access.name = "cost"
    /\ calls[last_access.inst]["prediction"] = 1
    /\ \E j \in DOMAIN objs : objs[j]["_cache_cost"] > last_access.value

(***************************************************************************)
(* _make_dir (data_outputs.py 105-124)                                     *)
(*                                                                         *)
(* One prefix and one hparam_string, neither holding a character that is   *)
(* special in a regular expression other than '.', so that the re.sub of   *)
(* line 119 strips experiment_dir from the path.  A name under             *)
(* experiment_dir is the sequence of its characters, all digits here.      *)
(***************************************************************************)
MaxCalls == 104

RECURSIVE ParseInt(_)
\* int() of a string of digits
ParseInt(str) ==
    IF str = << >> THEN 0
    ELSE 10 * ParseInt(SubSeq(str, 1, Len(str) - 1)) + str[Len(str)]

RECURSIVE Digits(_)
\* the decimal digits of n
Digits(n) == IF n < 10 THEN <<n>> ELSE Append(Digits(n \div 10), n % 10)

\* '{:02d}'.format(n)
Format02d(n) == IF n < 10 THEN <<0, n>> ELSE Digits(n)

\* a < b in the order of Python strings
StrLess(a, b) ==
    \E k \in 1..(Len(b)) :
        /\ \A j \in 1..(k - 1) : j <= Len(a) /\ a[j] = b[j]
        /\ k - 1 <= Len(a)
        /\ (k > Len(a) \/ a[k] < b[k])

\* sorted(names)[-1]
SortedLast(names) == CHOOSE m \in names : \A x \in names \ {m} : StrLess(x, m)

\* _make_dir: the name of the directory it returns and creates
_make_dir(names) ==
    LET experiment_ids == names
        name == IF Cardinality(experiment_ids) = 0 THEN <<0, 0>>
                ELSE Format02d(ParseInt(SortedLast(experiment_ids)) + 1)
    IN  [dir |-> name, names |-> names \cup {name}]

MakeDir ==
    /\ Len(returned) < MaxCalls
    /\ LET r == _make_dir(fs)
       IN  /\ fs' = r.names
           /\ returned' = Append(returned, r.dir)
    /\ UNCHANGED <<metaVars, evalVars, agentVars, fitVars, lazyVars, settingsVars>>

NextDir == MakeDir

HighestNumber(names) == Max({ParseInt(d) : d \in names})

\* C9: starting with no experiment directory, every call of _make_dir returns
\* the directory numbered '00' if none exists and otherwise one more than the
\* highest existing number; the directory exists after the call; no two calls
\* return the same directory.
C9_FreshNumberedDirectory ==
    /\ [](\A i \in 1..Len(returned) :
            /\ returned[i] \in fs
            /\ \A j \in 1..Len(returned) : i # j => returned[i] # returned[j])
    /\ [][Len(returned') = Len(returned) + 1 =>
            LET dir == returned'[Len(returned')]
            IN  /\ fs = {} => dir = <<0, 0>>
                /\ fs # {} => ParseInt(dir) = HighestNumber(fs) + 1
                /\ fs # {} /\ HighestNumber(fs) + 1 < 100 =>
                      dir = Format02d(HighestNumber(fs) + 1)]_vars

(***************************************************************************)
(* outputs_settings_persist (data_outputs.py 40-61)                        *)
(*                                                                         *)
(* A dict is the sequence of its items, in the order it yields them.       *)
(***************************************************************************)
MaxVars == 3
Names == {"lr", "reg", "N_EPOCHS"}
Values == {5, 100}

Range(q) == {q[i] : i \in 1..Len(q)}

\* the dicts of at most MaxVars items
Dicts ==
    {d \in SeqsUpTo(Names \X Values, MaxVars) :
        \A i, j \in 1..Len(d) : i # j => d[i][1] # d[j][1]}

NoPersist == [called |-> FALSE, vars_dict |-> << >>, to_persist |-> {},
              returned |-> << >>, vars_after |-> << >>, lines_before |-> 0]

\* '{}: {}\n'.format(var_name, var_value)
SettingsLine(var_name, var_value) == var_name \o ": " \o ToString(var_value) \o "\n"

\* the function with the file opened for appending ('a+')
outputs_settings_persistAppend(file, vars_dict, to_persist) ==
    LET keep(item) == item[1] \in to_persist
        settings_dict == SelectSeq(vars_dict, keep)
        old == IF file = PyNone THEN << >> ELSE file[1]
    IN  [file |-> Some(old \o [i \in 1..Len(settings_dict) |->
                         SettingsLine(settings_dict[i][1], settings_dict[i][2])]),
         settings_dict |-> settings_dict,
         vars_dict |-> vars_dict]

\* outputs_settings_persist: open with 'w+' empties the file; .file is the
\* file afterwards, .settings_dict what is returned, .vars_dict the argument
\* afterwards
outputs_settings_persist(file, vars_dict, to_persist) ==
    LET keep(item) == item[1] \in to_persist
        settings_dict == SelectSeq(vars_dict, keep)
    IN  [file |-> Some([i \in 1..Len(settings_dict) |->
                         SettingsLine(settings_dict[i][1], settings_dict[i][2])]),
         settings_dict |-> settings_dict,
         vars_dict |-> vars_dict]

\* to_persist is a list of which only membership is used (line 55): it is
\* drawn as the set of its elements
Persist ==
    /\ \E vars_dict \in Dicts, to_persist \in SUBSET Names :
          LET r == outputs_settings_persist(settings_txt, vars_dict, to_persist)
          IN  /\ settings_txt' = r.file
              /\ last_persist' = [called |-> TRUE,
                                  vars_dict |-> vars_dict, to_persist |-> to_persist,
                                  returned |-> r.settings_dict,
                                  vars_after |-> r.vars_dict,
                                  lines_before |->
                                      IF settings_txt = PyNone THEN 0
                                      ELSE Len(settings_txt[1])]
    /\ UNCHANGED <<metaVars, evalVars, agentVars, fitVars, lazyVars, dirVars>>

NextSettings == Persist

\* C10: outputs_settings_persist returns exactly the entries of vars_dict
\* whose names are in to_persist, values unchanged; settings.txt then holds
\* one 'name: value' line for each returned entry and no other line;
\* vars_dict is not modified.
C10_PersistedSubset ==
    last_persist.called =>
        LET p == last_persist
            lines == settings_txt[1]
        IN  /\ Range(p.returned) =
                  {item \in Range(p.vars_dict) : item[1] \in p.to_persist}
            /\ \A i, j \in 1..Len(p.returned) : i # j => p.returned[i] # p.returned[j]
            /\ settings_txt # PyNone
            /\ Len(lines) = Len(p.returned)
            /\ \A i \in 1..Len(lines) :
                  lines[i] = p.returned[i][1] \o ": " \o ToString(p.returned[i][2]) \o "\n"
            /\ p.vars_after = p.vars_dict

\* a call that keeps one of two variables, over a file that held two lines
C10_Witness ==
    /\ last_persist.called
    /\ Len(last_persist.vars_dict) = 2
    /\ Len(last_persist.returned) = 1
    /\ last_persist.lines_before = 2
    /\ settings_txt = Some(<<"lr: 5\n">>)

(***************************************************************************)
(* Specifications                                                          *)
(***************************************************************************)
Init == MetaInit /\ EvalInit /\ AgentInit /\ FitInit /\ LazyInit
        /\ fs = {} /\ returned = << >> /\ settings_txt = PyNone
        /\ last_persist = NoPersist

SpecMeta == Init /\ [][NextMeta]_vars
SpecEval == Init /\ [][NextEval]_vars
SpecAgent == Init /\ [][NextAgent]_vars
SpecFit == Init /\ [][NextFit]_vars
SpecLazy == Init /\ [][NextLazy]_vars
SpecDir == Init /\ [][NextDir]_vars
SpecSettings == Init /\ [][NextSettings]_vars

====
